---- MODULE Spec2Model ----
(***************************************************************************)
(* Model of rust/netsim-cxx/src/captures/capture.rs: CaptureInfo (the      *)
(* capture state of one chip) and Captures (the registry that indexes the  *)
(* shared CaptureInfo cells by chip id and by facade key).                 *)
(*                                                                         *)
(* An Arc<Mutex<CaptureInfo>> is a cell of `heap`; its identity is its     *)
(* index. Both maps of Captures and the handles callers cloned hold such   *)
(* indices, so sharing (as opposed to copying) is visible in the model.    *)
(***************************************************************************)
EXTENDS Integers, Sequences, FiniteSets, TLC

\* ------------------------------------------------------------------ bounds
MaxChipId == 2      \* chip ids are 1..MaxChipId
MaxRefs == 2        \* Arc cells ever allocated by insert
MaxRecords == 1     \* packets appended during one capture period
MaxTick == 2        \* wall-clock readings, in half seconds since the epoch

\* ----------------------------------------------------------- value spaces
ChipIds == 1..MaxChipId
ChipKinds == {"BLUETOOTH", "WIFI"}
DeviceNames == {"dev1"}
Refs == 1..MaxRefs

\* Option<File>: None, or Some(file) for an open File.
NoFile == "None"
SomeFile == "Some"

\* usize is wider than the integers TLC computes with, so a usize is kept as
\* two digits in base 2^16: the value is hi * 2^16 + lo.
Base == 2 ^ 16
usize(n) == [hi |-> n \div Base, lo |-> n % Base]
usize_add(a, b) ==
    LET lo == a.lo + b.lo
    IN  [hi |-> a.hi + b.hi + (lo \div Base), lo |-> lo % Base]

\* `x as i32` for a usize x: the low 32 bits, read as two's complement.
usize_as_i32(s) ==
    LET h == s.hi % Base
    IN  IF h >= Base \div 2 THEN (h - Base) * Base + s.lo ELSE h * Base + s.lo

\* Duration since UNIX_EPOCH of a clock reading t (half seconds).
as_secs(t) == t \div 2
subsec_nanos(t) == (t % 2) * 500000000

\* Outcomes of the fallible steps of start_capture: the step that fails (or
\* "none") and the clock reading SystemTime::now() would give.
IoSteps == {"none", "create_dir_all", "open", "write_pcap_header", "duration_since"}
IoOutcomes == [fail : IoSteps, now : 1..MaxTick]

\* Bytes of the packets the packet-writing collaborator appends.
PacketLens == {100}

\* Bytes a long capture appends, taken as one append: enough to carry the
\* size past the largest i32.
WideLens == {(2 ^ 30 - 1) * 2 + 1}

\* -------------------------------------------------------- external pieces
\* crate::ffi::get_facade_id: a pure lookup from chip id to facade id.
get_facade_id(chip_id) == chip_id + 40

\* pcap_util::write_pcap_header returns the number of header bytes written.
PcapHeaderSize == 24
write_pcap_header == usize(PcapHeaderSize)

\* ------------------------------------------------------------ CaptureInfo
CaptureInfo_new(chip_kind, chip_id, device_name) ==
    [facade_id   |-> get_facade_id(chip_id),
     id          |-> chip_id,
     chip_kind   |-> chip_kind,
     device_name |-> device_name,
     size        |-> usize(0),
     records     |-> 0,
     seconds     |-> 0,
     nanos       |-> 0,
     valid       |-> TRUE,
     file        |-> NoFile]

\* start_capture(&mut self) under the outcome io. The result holds the record
\* afterwards, what the call returned ("Ok", "Err", or "Panic" for the expect
\* on the clock) and whether open() was reached and created or truncated the
\* capture file.
\* Faulty variant of start_capture: the early return of an active record is
\* missing, so a second call opens and truncates the file again.
start_capture_reopens(self, io) ==
    IF io.fail = "create_dir_all" THEN [self |-> self, ret |-> "Err", opened |-> FALSE]
    ELSE IF io.fail = "open" THEN [self |-> self, ret |-> "Err", opened |-> FALSE]
    ELSE IF io.fail = "write_pcap_header" THEN [self |-> self, ret |-> "Err", opened |-> TRUE]
    ELSE IF io.fail = "duration_since" THEN [self |-> self, ret |-> "Panic", opened |-> TRUE]
    ELSE [self |-> [self EXCEPT !.size = write_pcap_header,
                                !.records = 0,
                                !.seconds = as_secs(io.now),
                                !.nanos = subsec_nanos(io.now),
                                !.file = SomeFile],
          ret |-> "Ok", opened |-> TRUE]

\* Faulty variant of start_capture: the record is updated before the header
\* write is known to have succeeded.
start_capture_partial(self, io) ==
    IF self.file # NoFile THEN [self |-> self, ret |-> "Ok", opened |-> FALSE]
    ELSE IF io.fail = "create_dir_all" THEN [self |-> self, ret |-> "Err", opened |-> FALSE]
    ELSE IF io.fail = "open" THEN [self |-> self, ret |-> "Err", opened |-> FALSE]
    ELSE IF io.fail = "write_pcap_header"
         THEN [self |-> [self EXCEPT !.records = 0, !.file = SomeFile],
               ret |-> "Err", opened |-> TRUE]
    ELSE IF io.fail = "duration_since" THEN [self |-> self, ret |-> "Panic", opened |-> TRUE]
    ELSE [self |-> [self EXCEPT !.size = write_pcap_header,
                                !.records = 0,
                                !.seconds = as_secs(io.now),
                                !.nanos = subsec_nanos(io.now),
                                !.file = SomeFile],
          ret |-> "Ok", opened |-> TRUE]

\* Faulty variant of start_capture: the record count and the size of the
\* earlier capture period carry over into the new one.
start_capture_accumulates(self, io) ==
    IF self.file # NoFile THEN [self |-> self, ret |-> "Ok", opened |-> FALSE]
    ELSE IF io.fail = "create_dir_all" THEN [self |-> self, ret |-> "Err", opened |-> FALSE]
    ELSE IF io.fail = "open" THEN [self |-> self, ret |-> "Err", opened |-> FALSE]
    ELSE IF io.fail = "write_pcap_header" THEN [self |-> self, ret |-> "Err", opened |-> TRUE]
    ELSE IF io.fail = "duration_since" THEN [self |-> self, ret |-> "Panic", opened |-> TRUE]
    ELSE [self |-> [self EXCEPT !.size = usize_add(@, write_pcap_header),
                                !.seconds = as_secs(io.now),
                                !.nanos = subsec_nanos(io.now),
                                !.file = SomeFile],
          ret |-> "Ok", opened |-> TRUE]

start_capture(self, io) ==
    IF self.file # NoFile THEN [self |-> self, ret |-> "Ok", opened |-> FALSE]
    ELSE IF io.fail = "create_dir_all" THEN [self |-> self, ret |-> "Err", opened |-> FALSE]
    ELSE IF io.fail = "open" THEN [self |-> self, ret |-> "Err", opened |-> FALSE]
    ELSE IF io.fail = "write_pcap_header" THEN [self |-> self, ret |-> "Err", opened |-> TRUE]
    ELSE IF io.fail = "duration_since" THEN [self |-> self, ret |-> "Panic", opened |-> TRUE]
    ELSE [self |-> [self EXCEPT !.size = write_pcap_header,
                                !.records = 0,
                                !.seconds = as_secs(io.now),
                                !.nanos = subsec_nanos(io.now),
                                !.file = SomeFile],
          ret |-> "Ok", opened |-> TRUE]

\* Faulty variant of stop_capture: the summary is cleared with the file.
stop_capture_resets(self) ==
    [self EXCEPT !.file = NoFile, !.size = usize(0), !.records = 0]

\* Faulty variant of stop_capture: the facade id is cleared with the file.
stop_capture_forgets(self) == [self EXCEPT !.file = NoFile, !.facade_id = 0]

stop_capture(self) == [self EXCEPT !.file = NoFile]

new_facade_key(kind, facade_id) == <<kind, facade_id>>

get_facade_key(self) == new_facade_key(self.chip_kind, self.facade_id)

\* Faulty variant of get_capture_proto: the state does not follow the file.
get_capture_proto_on(self) ==
    [id          |-> self.id,
     chip_kind   |-> self.chip_kind,
     device_name |-> self.device_name,
     state       |-> "ON",
     size        |-> usize_as_i32(self.size),
     records     |-> self.records,
     timestamp   |-> [seconds |-> self.seconds, nanos |-> self.nanos],
     valid       |-> self.valid]

\* Faulty variant of get_capture_proto: the two arms of the match on
\* file.is_some() are swapped.
get_capture_proto_swapped(self) ==
    [id          |-> self.id,
     chip_kind   |-> self.chip_kind,
     device_name |-> self.device_name,
     state       |-> IF self.file # NoFile THEN "OFF" ELSE "ON",
     size        |-> usize_as_i32(self.size),
     records     |-> self.records,
     timestamp   |-> [seconds |-> self.seconds, nanos |-> self.nanos],
     valid       |-> self.valid]

get_capture_proto(self) ==
    [id          |-> self.id,
     chip_kind   |-> self.chip_kind,
     device_name |-> self.device_name,
     state       |-> IF self.file # NoFile THEN "ON" ELSE "OFF",
     size        |-> usize_as_i32(self.size),
     records     |-> self.records,
     timestamp   |-> [seconds |-> self.seconds, nanos |-> self.nanos],
     valid       |-> self.valid]

\* The packet-writing collaborator: appends len bytes as one record.
write_packet(self, len) ==
    [self EXCEPT !.size = usize_add(self.size, usize(len)),
                 !.records = self.records + 1]

\* ------------------------------------------------- BTreeMap and HashMap
\* BTreeMap<ChipId, Arc<..>>: the entries <<key, value>> in the order the
\* tree keeps them, which is the order iter() and values() walk.
btree_contains_key(m, k) == \E i \in DOMAIN m : m[i][1] = k

btree_get(m, k) == m[CHOOSE i \in DOMAIN m : m[i][1] = k][2]

\* Faulty variant of btree_insert: an entry already under the key is kept.
btree_insert_keeps(m, k, v) ==
    IF btree_contains_key(m, k) THEN m
    ELSE LET n == Cardinality({i \in DOMAIN m : m[i][1] < k})
         IN  SubSeq(m, 1, n) \o <<(<<k, v>>)>> \o SubSeq(m, n + 1, Len(m))

\* Faulty variant of btree_insert: a map that keeps insertion order.
btree_insert_unordered(m, k, v) ==
    IF btree_contains_key(m, k)
    THEN [i \in DOMAIN m |-> IF m[i][1] = k THEN <<k, v>> ELSE m[i]]
    ELSE Append(m, <<k, v>>)

btree_insert(m, k, v) ==
    IF btree_contains_key(m, k)
    THEN [i \in DOMAIN m |-> IF m[i][1] = k THEN <<k, v>> ELSE m[i]]
    ELSE SelectSeq(m, LAMBDA e : e[1] < k) \o << <<k, v>> >>
             \o SelectSeq(m, LAMBDA e : e[1] > k)

btree_remove(m, k) == SelectSeq(m, LAMBDA e : e[1] # k)

\* HashMap<(ChipKind, FacadeId), Arc<..>>: a function on the keys present.
hash_insert(m, k, v) == [x \in DOMAIN m \cup {k} |-> IF x = k THEN v ELSE m[x]]

hash_remove(m, k) == [x \in DOMAIN m \ {k} |-> m[x]]

\* Mutex::lock() fails exactly when a holder panicked (the lock is poisoned).
lock(cell) == IF cell.poisoned THEN "Err" ELSE "Ok"

\* Mutex::new(capture) gives every record a Mutex of its own: lock() on the
\* cell r returns at once unless a guard of that same cell is alive, given
\* the set of cells whose guard is held.
\* Faulty variant of mutex_free: one lock guards all the records.
mutex_free_global(held, r) == held = {}

mutex_free(held, r) == r \notin held

\* --------------------------------------------------------------- Captures
VARIABLES
    captures,   \* the Captures struct: its two maps
    heap,       \* the live Arc<Mutex<CaptureInfo>> cells, by identity
    arcs,       \* number of cells Arc::new has allocated so far
    handles,    \* the cells callers hold a clone of the Arc of
    pending,    \* a CaptureInfo created and not yet inserted: <<>> or <<c>>
    last,       \* the last operation: its name, arguments and result
    registered, \* history: chip id -> the cell last inserted under it and
                \* not removed since
    deregistered, \* history: the live cells remove() took out of the registry
    guards      \* the cells whose MutexGuard a thread keeps across steps

vars == <<captures, heap, arcs, handles, pending, last, registered, deregistered,
          guards>>

Captures_new ==
    [facade_key_to_capture |-> [x \in {} |-> 0],
     chip_id_to_capture    |-> <<>>]

contains(self, key) == btree_contains_key(self.chip_id_to_capture, key)

get(self, key) == btree_get(self.chip_id_to_capture, key)

is_empty(self) == self.chip_id_to_capture = <<>>

iter(self) == self.chip_id_to_capture

values(self) ==
    [i \in DOMAIN self.chip_id_to_capture |-> self.chip_id_to_capture[i][2]]

\* The cells each map refers to.
ChipRefs(self) == {self.chip_id_to_capture[i][2] : i \in DOMAIN self.chip_id_to_capture}
FacadeRefs(self) ==
    {self.facade_key_to_capture[k] : k \in DOMAIN self.facade_key_to_capture}

\* insert(&mut self, capture), arc being the identity Arc::new gives the new
\* cell: the new Captures and cells.
\* Faulty variant of insert: each map gets an Arc of its own around a copy of
\* the record, instead of a clone of one Arc.
insert_copies(self, cells, arc, capture) ==
    LET chip_id == capture.id
        facade_key == get_facade_key(capture)
        cell == [info |-> capture, poisoned |-> FALSE]
    IN  [self |-> [chip_id_to_capture |->
                       btree_insert(self.chip_id_to_capture, chip_id, arc),
                   facade_key_to_capture |->
                       hash_insert(self.facade_key_to_capture, facade_key, arc + 1)],
         heap |-> hash_insert(hash_insert(cells, arc, cell), arc + 1, cell)]

insert(self, cells, arc, capture) ==
    LET chip_id == capture.id
        facade_key == get_facade_key(capture)
        arc_capture == [info |-> capture, poisoned |-> FALSE]
    IN  [self |-> [chip_id_to_capture |->
                       btree_insert(self.chip_id_to_capture, chip_id, arc),
                   facade_key_to_capture |->
                       hash_insert(self.facade_key_to_capture, facade_key, arc)],
         heap |-> hash_insert(cells, arc, arc_capture)]

\* remove(&mut self, key): the new Captures and cells, and the cell that left
\* the chip-id map (0 when the key was not there).
\* Faulty variant of remove: the first entry is removed whatever the key.
remove_first(self, cells, key) ==
    IF self.chip_id_to_capture # <<>>
    THEN LET k == self.chip_id_to_capture[1][1]
             arc_capture == self.chip_id_to_capture[1][2]
         IN  [self |-> [facade_key_to_capture |->
                            hash_remove(self.facade_key_to_capture,
                                        get_facade_key(cells[arc_capture].info)),
                        chip_id_to_capture |-> btree_remove(self.chip_id_to_capture, k)],
              heap |-> [cells EXCEPT ![arc_capture].info = stop_capture(@)],
              removed |-> arc_capture]
    ELSE [self |-> self, heap |-> cells, removed |-> 0]

\* Faulty variant of remove: the facade-key map is cleared, not just the
\* entry of the removed record.
remove_clears_facade(self, cells, key) ==
    IF contains(self, key)
    THEN LET arc_capture == get(self, key)
             locked == lock(cells[arc_capture]) = "Ok"
         IN  [self |-> [facade_key_to_capture |->
                            IF locked THEN [x \in {} |-> 0]
                            ELSE self.facade_key_to_capture,
                        chip_id_to_capture |-> btree_remove(self.chip_id_to_capture, key)],
              heap |-> IF locked
                       THEN [cells EXCEPT ![arc_capture].info = stop_capture(@)]
                       ELSE cells,
              removed |-> arc_capture]
    ELSE [self |-> self, heap |-> cells, removed |-> 0]

remove(self, cells, key) ==
    IF contains(self, key)
    THEN LET arc_capture == get(self, key)
             locked == lock(cells[arc_capture]) = "Ok"
         IN  [self |-> [facade_key_to_capture |->
                            IF locked
                            THEN hash_remove(self.facade_key_to_capture,
                                             get_facade_key(cells[arc_capture].info))
                            ELSE self.facade_key_to_capture,
                        chip_id_to_capture |-> btree_remove(self.chip_id_to_capture, key)],
              heap |-> IF locked
                       THEN [cells EXCEPT ![arc_capture].info = stop_capture(@)]
                       ELSE cells,
              removed |-> arc_capture]
    ELSE [self |-> self, heap |-> cells, removed |-> 0]

\* The effects of remove(&mut self, key) one by one, in the order of the
\* statements of the code: each entry names the statement and holds the
\* Captures and cells after it. The first entry is the state at the call.
\* Faulty variant of remove_steps: the capture is stopped before the facade-key
\* entry is removed.
remove_steps_stop_first(self, cells, key) ==
    LET s0 == [effect |-> "call", self |-> self, heap |-> cells]
    IN  IF ~contains(self, key) THEN <<s0>>
        ELSE LET arc_capture == get(self, key)
                 s1 == [effect |-> "stop_capture", self |-> self,
                        heap |-> [cells EXCEPT ![arc_capture].info = stop_capture(@)]]
                 s2 == [effect |-> "facade_key_to_capture.remove",
                        self |-> [self EXCEPT !.facade_key_to_capture =
                                     hash_remove(@, get_facade_key(cells[arc_capture].info))],
                        heap |-> s1.heap]
                 chip(s) == [effect |-> "chip_id_to_capture.remove",
                             self |-> [s.self EXCEPT !.chip_id_to_capture =
                                          btree_remove(@, key)],
                             heap |-> s.heap]
             IN  IF lock(cells[arc_capture]) = "Ok"
                 THEN <<s0, s1, s2, chip(s2)>>
                 ELSE <<s0, chip(s0)>>

remove_steps(self, cells, key) ==
    LET s0 == [effect |-> "call", self |-> self, heap |-> cells]
    IN  IF ~contains(self, key) THEN <<s0>>
        ELSE LET arc_capture == get(self, key)
                 s1 == [effect |-> "facade_key_to_capture.remove",
                        self |-> [self EXCEPT !.facade_key_to_capture =
                                     hash_remove(@, get_facade_key(cells[arc_capture].info))],
                        heap |-> cells]
                 s2 == [effect |-> "stop_capture", self |-> s1.self,
                        heap |-> [cells EXCEPT ![arc_capture].info = stop_capture(@)]]
                 chip(s) == [effect |-> "chip_id_to_capture.remove",
                             self |-> [s.self EXCEPT !.chip_id_to_capture =
                                          btree_remove(@, key)],
                             heap |-> s.heap]
             IN  IF lock(cells[arc_capture]) = "Ok"
                 THEN <<s0, s1, s2, chip(s2)>>
                 ELSE <<s0, chip(s0)>>

\* Arc's Drop: a cell that neither map nor any caller refers to is freed
\* (and its File, if any, closed with it).
drop_unreferenced(self, cells, held) ==
    [r \in DOMAIN cells \cap (ChipRefs(self) \cup FacadeRefs(self) \cup held)
        |-> cells[r]]

\* ---------------------------------------------------------------- actions
Called(op, key, ref, ret, opened) ==
    [op |-> op, key |-> key, ref |-> ref, ret |-> ret, opened |-> opened]

Init ==
    /\ captures = Captures_new
    /\ heap = [x \in {} |-> 0]
    /\ arcs = 0
    /\ handles = {}
    /\ pending = <<>>
    /\ last = Called("init", 0, 0, "Ok", FALSE)
    /\ registered = [x \in {} |-> 0]
    /\ deregistered = {}
    /\ guards = {}

\* CaptureInfo::new: the caller owns the record until it inserts it.
New(chip_kind, chip_id, device_name) ==
    /\ arcs < MaxRefs
    /\ pending' = <<CaptureInfo_new(chip_kind, chip_id, device_name)>>
    /\ last' = Called("new", chip_id, 0, "Ok", FALSE)
    /\ UNCHANGED <<captures, heap, arcs, handles, registered, deregistered, guards>>

Insert ==
    /\ pending # <<>>
    /\ arcs < MaxRefs
    /\ LET res == insert(captures, heap, arcs + 1, pending[1])
       IN  /\ captures' = res.self
           /\ heap' = drop_unreferenced(res.self, res.heap, handles)
           /\ last' = Called("insert", pending[1].id, arcs + 1, "Ok", FALSE)
    /\ arcs' = arcs + 1
    /\ pending' = <<>>
    /\ registered' = hash_insert(registered, pending[1].id, arcs + 1)
    /\ deregistered' = deregistered \cap DOMAIN heap'
    /\ UNCHANGED <<handles, guards>>

Remove(key) ==
    /\ contains(captures, key) => mutex_free(guards, get(captures, key))
    /\ LET res == remove(captures, heap, key)
       IN  /\ captures' = res.self
           /\ heap' = drop_unreferenced(res.self, res.heap, handles)
           /\ last' = Called("remove", key, res.removed, "Ok", FALSE)
    /\ registered' = hash_remove(registered, key)
    /\ deregistered' =
           (IF key \in DOMAIN registered
            THEN deregistered \cup {registered[key]} ELSE deregistered)
               \cap DOMAIN heap'
    /\ UNCHANGED <<arcs, handles, pending, guards>>

\* get(key) followed by a clone of the Arc it refers to.
Get(key) ==
    /\ contains(captures, key)
    /\ handles' = handles \cup {get(captures, key)}
    /\ last' = Called("get", key, get(captures, key), "Ok", FALSE)
    /\ UNCHANGED <<captures, heap, arcs, pending, registered, deregistered, guards>>

\* facade_key_to_capture.get(facade_key) followed by a clone of the Arc.
GetByFacadeKey(facade_key) ==
    /\ facade_key \in DOMAIN captures.facade_key_to_capture
    /\ handles' = handles \cup {captures.facade_key_to_capture[facade_key]}
    /\ last' = Called("get_by_facade_key", 0,
                      captures.facade_key_to_capture[facade_key], "Ok", FALSE)
    /\ UNCHANGED <<captures, heap, arcs, pending, registered, deregistered, guards>>

\* A caller locks the cell it holds and calls start_capture. A panic while
\* the guard is alive poisons the Mutex.
StartCapture(r, io) ==
    /\ r \in handles
    /\ mutex_free(guards, r)
    /\ lock(heap[r]) = "Ok"
    /\ LET res == start_capture(heap[r].info, io)
       IN  /\ heap' = [heap EXCEPT ![r] = [info |-> res.self,
                                           poisoned |-> res.ret = "Panic"]]
           /\ last' = Called("start_capture", heap[r].info.id, r, res.ret, res.opened)
    /\ UNCHANGED <<captures, arcs, handles, pending, registered, deregistered, guards>>

\* Faulty variant of StopCapture: stopping one record stops every record.
StopCapture_all(r) ==
    /\ r \in handles
    /\ mutex_free(guards, r)
    /\ lock(heap[r]) = "Ok"
    /\ heap' = [o \in DOMAIN heap |-> [heap[o] EXCEPT !.info = stop_capture(@)]]
    /\ last' = Called("stop_capture", heap[r].info.id, r, "Ok", FALSE)
    /\ UNCHANGED <<captures, arcs, handles, pending, registered, deregistered, guards>>

StopCapture(r) ==
    /\ r \in handles
    /\ mutex_free(guards, r)
    /\ lock(heap[r]) = "Ok"
    /\ heap' = [heap EXCEPT ![r].info = stop_capture(@)]
    /\ last' = Called("stop_capture", heap[r].info.id, r, "Ok", FALSE)
    /\ UNCHANGED <<captures, arcs, handles, pending, registered, deregistered, guards>>

\* The packet path appends a packet to an active capture.
WritePacket(r, len) ==
    /\ r \in handles
    /\ mutex_free(guards, r)
    /\ lock(heap[r]) = "Ok"
    /\ heap[r].info.file # NoFile
    /\ heap[r].info.records < MaxRecords
    /\ heap' = [heap EXCEPT ![r].info = write_packet(@, len)]
    /\ last' = Called("write_packet", heap[r].info.id, r, "Ok", FALSE)
    /\ UNCHANGED <<captures, arcs, handles, pending, registered, deregistered, guards>>

FacadeKeys == {new_facade_key(k, get_facade_id(c)) : k \in ChipKinds, c \in ChipIds}

Next ==
    \/ \E k \in ChipKinds, c \in ChipIds, n \in DeviceNames : New(k, c, n)
    \/ Insert
    \/ \E key \in ChipIds : Remove(key)
    \/ \E key \in ChipIds : Get(key)
    \/ \E fk \in FacadeKeys : GetByFacadeKey(fk)
    \/ \E r \in Refs, io \in IoOutcomes : StartCapture(r, io)
    \/ \E r \in Refs : StopCapture(r)
    \/ \E r \in Refs, len \in PacketLens : WritePacket(r, len)

Spec == Init /\ [][Next]_vars

\* The same program with captures long enough for size to pass 2^31 bytes.
NextWide ==
    \/ Next
    \/ \E r \in Refs, len \in WideLens : WritePacket(r, len)

SpecWide == Init /\ [][NextWide]_vars

\* A thread locks the cell it holds and keeps the guard (the packet path in
\* the middle of a write), then drops it.
LockCell(r) ==
    /\ r \in handles
    /\ mutex_free(guards, r)
    /\ lock(heap[r]) = "Ok"
    /\ guards' = guards \cup {r}
    /\ last' = Called("lock", heap[r].info.id, r, "Ok", FALSE)
    /\ UNCHANGED <<captures, heap, arcs, handles, pending, registered, deregistered>>

DropGuard(r) ==
    /\ r \in guards
    /\ guards' = guards \ {r}
    /\ UNCHANGED <<captures, heap, arcs, handles, pending, last, registered,
                   deregistered>>

NextLocks ==
    \/ Next
    \/ \E r \in Refs : LockCell(r)
    \/ \E r \in Refs : DropGuard(r)

SpecLocks == Init /\ [][NextLocks]_vars

TypeOK ==
    /\ arcs \in 0..MaxRefs
    /\ DOMAIN heap \subseteq 1..arcs
    /\ handles \subseteq DOMAIN heap
    /\ guards \subseteq handles
    /\ ChipRefs(captures) \cup FacadeRefs(captures) \subseteq DOMAIN heap

\* ------------------------------------------------------------ properties
\* Strict ascending order of the keys of a sequence of <<key, value>> entries.
Ascending(entries) ==
    \A i, j \in DOMAIN entries : i < j => entries[i][1] < entries[j][1]

\* C1: in every reachable state the chip-id map and the facade-key map refer
\* to exactly the same set of records.
C1_SameRecords == ChipRefs(captures) = FacadeRefs(captures)

\* C2: when remove(chipId) returns for a registered chip id, the record's
\* file is released, the chip-id map has no entry for chipId, the facade-key
\* map has no entry for the record's facade key, and contains(chipId) is
\* false.
C2_RemoveClearsBoth ==
    [][\A key \in ChipIds :
          (Remove(key) /\ contains(captures, key)) =>
              LET r == get(captures, key)
                  facade_key == get_facade_key(heap[r].info)
              IN  /\ ~contains(captures', key)
                  /\ facade_key \notin DOMAIN captures'.facade_key_to_capture
                  /\ r \in DOMAIN heap' => heap'[r].info.file = NoFile]_vars

\* C3: a record that remove() took out of the registry stays deregistered and
\* never has an open file again, whatever callers do with a handle they
\* obtained before the removal.
C3_DeregisteredTerminal ==
    \A r \in deregistered :
        /\ r \notin ChipRefs(captures)
        /\ r \in DOMAIN heap => heap[r].info.file = NoFile

\* C4: start_capture on a record whose file is already open returns Ok and
\* changes nothing: no file is opened or truncated, and the record (size,
\* records, seconds, nanos, file) is as before, whatever the packet path
\* added to the counters since the first start.
C4_StartIdempotent ==
    [][\A r \in Refs, io \in IoOutcomes :
          (StartCapture(r, io) /\ heap[r].info.file # NoFile) =>
              /\ last'.ret = "Ok"
              /\ ~last'.opened
              /\ heap'[r] = heap[r]]_vars

C4_Witness ==
    /\ last.op = "start_capture"
    /\ last.ret = "Ok"
    /\ ~last.opened
    /\ heap[last.ref].info.file = SomeFile
    /\ heap[last.ref].info.records > 0

\* C5: when start_capture fails at create_dir_all, open or write_pcap_header
\* it returns an error and the record is unchanged: the file stays absent and
\* size, records, seconds and nanos keep their values.
C5_FailedStartKeepsRecord ==
    [][\A r \in Refs, io \in IoOutcomes :
          (/\ StartCapture(r, io)
           /\ heap[r].info.file = NoFile
           /\ io.fail \in {"create_dir_all", "open", "write_pcap_header"}) =>
              /\ last'.ret = "Err"
              /\ heap'[r].info = heap[r].info
              /\ get_capture_proto(heap'[r].info).state = "OFF"]_vars

C5_Witness ==
    /\ last.op = "start_capture"
    /\ last.ret = "Err"
    /\ last.opened
    /\ heap[last.ref].info.file = NoFile
    /\ heap[last.ref].info.records > 0

\* C6: stop_capture sets the file to None and changes nothing else: the
\* snapshot afterwards is OFF with the size, records and timestamp of the
\* snapshot before; on a record with no file it changes nothing at all.
C6_StopKeepsSummary ==
    [][\A r \in Refs :
          StopCapture(r) =>
              /\ heap'[r].info.file = NoFile
              /\ \A f \in DOMAIN heap[r].info \ {"file"} :
                     heap'[r].info[f] = heap[r].info[f]
              /\ get_capture_proto(heap'[r].info) =
                     [get_capture_proto(heap[r].info) EXCEPT !.state = "OFF"]
              /\ heap[r].info.file = NoFile => heap' = heap
              /\ captures' = captures]_vars

C6_Witness ==
    /\ last.op = "stop_capture"
    /\ heap[last.ref].info.file = NoFile
    /\ heap[last.ref].info.records > 0
    /\ get_capture_proto(heap[last.ref].info).size = PcapHeaderSize + 100

\* C7: right after insert(record), the lookup by the record's chip id and the
\* lookup by its facade key give the same cell, which holds the record.
C7_InsertSharesOneCell ==
    last.op = "insert" =>
        /\ contains(captures, last.key)
        /\ last.ref \in DOMAIN heap
        /\ heap[last.ref].info.id = last.key
        /\ get_facade_key(heap[last.ref].info) \in DOMAIN captures.facade_key_to_capture
        /\ get(captures, last.key) = last.ref
        /\ captures.facade_key_to_capture[get_facade_key(heap[last.ref].info)] = last.ref

C7_Witness ==
    /\ last.op = "insert"
    /\ Len(captures.chip_id_to_capture) = 2
    /\ get(captures, last.key) =
           captures.facade_key_to_capture[get_facade_key(heap[last.ref].info)]

\* C8: remove(chipId) for a chip id that is not registered returns normally
\* and leaves both maps and every record as they were.
C8_RemoveMissingIsNoOp ==
    [][\A key \in ChipIds :
          (Remove(key) /\ ~contains(captures, key)) =>
              /\ last'.ret = "Ok"
              /\ captures' = captures
              /\ heap' = heap]_vars

C8_Witness ==
    /\ last.op = "remove"
    /\ last.ref = 0
    /\ ~contains(captures, last.key)
    /\ ~is_empty(captures)

\* C9: iter() and values() yield exactly the registered records, each once,
\* in strictly ascending chip-id order.
C9_IterAscending ==
    /\ Ascending(iter(captures))
    /\ {iter(captures)[i] : i \in DOMAIN iter(captures)} =
           {<<k, registered[k]>> : k \in DOMAIN registered}
    /\ Len(iter(captures)) = Cardinality(DOMAIN registered)
    /\ Len(values(captures)) = Len(iter(captures))
    /\ \A i \in DOMAIN iter(captures) : values(captures)[i] = iter(captures)[i][2]

C9_Witness ==
    /\ last.op = "insert"
    /\ Len(iter(captures)) = 2
    /\ iter(captures)[1][1] = last.key
    /\ iter(captures)[1][2] > iter(captures)[2][2]

\* C10: the snapshot of a record taken right after CaptureInfo::new is OFF
\* with size 0, records 0, valid, and the id, kind and device name given.
C10_NewIsInactive ==
    [][\A k \in ChipKinds, c \in ChipIds, n \in DeviceNames :
          New(k, c, n) =>
              LET proto == get_capture_proto(pending'[1])
              IN  /\ proto.state = "OFF"
                  /\ proto.size = 0
                  /\ proto.records = 0
                  /\ proto.valid
                  /\ proto.id = c
                  /\ proto.chip_kind = k
                  /\ proto.device_name = n]_vars

C10_Witness ==
    /\ last.op = "new"
    /\ pending # <<>>
    /\ get_capture_proto(pending[1]).state = "OFF"
    /\ pending[1].chip_kind = "WIFI"

\* C11: in every reachable state of a record, inserted or not, the snapshot
\* reports ON exactly when the record's file is present and OFF otherwise.
C11_StateFollowsFile ==
    /\ \A r \in DOMAIN heap :
           /\ get_capture_proto(heap[r].info).state \in {"ON", "OFF"}
           /\ get_capture_proto(heap[r].info).state = "ON"
                  <=> heap[r].info.file = SomeFile
    /\ \A i \in DOMAIN pending :
           get_capture_proto(pending[i]).state = "OFF" /\ pending[i].file = NoFile

C11_Witness ==
    /\ last.op = "start_capture"
    /\ last.ret = "Err"
    /\ get_capture_proto(heap[last.ref].info).state = "OFF"
    /\ heap[last.ref].info.records > 0
    /\ \E r \in DOMAIN heap :
           /\ r \in deregistered
           /\ get_capture_proto(heap[r].info).state = "ON"

\* The position of an effect in a sequence of steps, 0 when it is not there.
EffectAt(steps, effect) ==
    IF \E i \in DOMAIN steps : steps[i].effect = effect
    THEN CHOOSE i \in DOMAIN steps : steps[i].effect = effect
    ELSE 0

C13_LookupsSeeBothMaps ==
    /\ last.op \in {"get", "get_by_facade_key"} =>
           /\ last.ref \in DOMAIN heap
           /\ last.ref \in ChipRefs(captures)
           /\ last.ref \in FacadeRefs(captures)
    /\ \A i \in DOMAIN iter(captures) :
           /\ iter(captures)[i][2] \in DOMAIN heap
           /\ iter(captures)[i][2] \in FacadeRefs(captures)

\* C14: each record has a Mutex of its own: while a thread holds the guard of
\* one record, start_capture, stop_capture and a packet write on any other
\* record a caller holds go ahead, and so does remove of the other record's
\* chip id; none of them needs anything but the record's own lock.
C14_OtherRecordNotBlocked ==
    \A a \in guards, b \in handles \ guards :
        lock(heap[b]) = "Ok" =>
            /\ ENABLED StopCapture(b)
            /\ \A io \in IoOutcomes : ENABLED StartCapture(b, io)
            /\ (heap[b].info.file # NoFile /\ heap[b].info.records < MaxRecords) =>
                   \A len \in PacketLens : ENABLED WritePacket(b, len)
            /\ \A key \in ChipIds :
                   (contains(captures, key) /\ get(captures, key) = b) =>
                       ENABLED Remove(key)

C14_Witness ==
    /\ guards # {}
    /\ last.op \in {"start_capture", "stop_capture", "write_packet"}
    /\ last.ref \in handles \ guards

\* C15: start_capture and stop_capture on one record, whatever they return,
\* leave both maps as they were, keep the record's chip id and facade key,
\* and leave every other record as it was.
C15_StartStopKeepRegistry ==
    [][\A r \in Refs :
          (StopCapture(r) \/ \E io \in IoOutcomes : StartCapture(r, io)) =>
              /\ captures' = captures
              /\ DOMAIN heap' = DOMAIN heap
              /\ heap'[r].info.id = heap[r].info.id
              /\ get_facade_key(heap'[r].info) = get_facade_key(heap[r].info)
              /\ \A o \in DOMAIN heap \ {r} : heap'[o] = heap[o]]_vars

C15_Witness ==
    /\ last.op = "start_capture"
    /\ last.ret = "Err"
    /\ Len(captures.chip_id_to_capture) = 2
    /\ \E o \in DOMAIN heap \ {last.ref} : heap[o].info.file = SomeFile

\* C16: a start_capture that succeeds on a record without a file leaves the
\* record with a file, size equal to the byte count write_pcap_header
\* returned, no records, and the timestamp of the clock reading of this
\* call, whatever size, records and timestamp the record had before.
C16_StartResetsCounters ==
    [][\A r \in Refs, io \in IoOutcomes :
          (/\ StartCapture(r, io)
           /\ heap[r].info.file = NoFile
           /\ io.fail = "none") =>
              /\ last'.ret = "Ok"
              /\ heap'[r].info.file = SomeFile
              /\ heap'[r].info.size = write_pcap_header
              /\ heap'[r].info.records = 0
              /\ heap'[r].info.seconds = as_secs(io.now)
              /\ heap'[r].info.nanos = subsec_nanos(io.now)]_vars

C16_Witness ==
    /\ last.op = "start_capture"
    /\ last.ret = "Ok"
    /\ last.opened
    /\ heap[last.ref].info.file = SomeFile
    /\ heap[last.ref].info.size = write_pcap_header
    /\ heap[last.ref].info.records = 0
    /\ heap[last.ref].info.seconds = as_secs(MaxTick)
\* C17: insert of a record whose chip id is already registered returns
\* normally, get(chip id) then gives the new record, and the chip-id map has
\* as many entries as before.
C17_DuplicateInsertOverwrites ==
    [][(Insert /\ contains(captures, pending[1].id)) =>
          /\ last'.ret = "Ok"
          /\ contains(captures', pending[1].id)
          /\ get(captures', pending[1].id) = arcs'
          /\ get(captures', pending[1].id) # get(captures, pending[1].id)
          /\ heap'[arcs'].info = pending[1]
          /\ Len(captures'.chip_id_to_capture) = Len(captures.chip_id_to_capture)]_vars

C17_Witness ==
    /\ last.op = "insert"
    /\ last.ref = 2
    /\ Len(captures.chip_id_to_capture) = 1
    /\ get(captures, last.key) = 2

\* C18: get_facade_key of a record gives the same value in every state of the
\* record's life: no step changes it, every facade-key entry is still filed
\* under the key its record has now, and the key remove computes from the
\* record is the key insert filed it under.
C18_FacadeKeyStable ==
    [][/\ \A r \in DOMAIN heap \cap DOMAIN heap' :
              get_facade_key(heap'[r].info) = get_facade_key(heap[r].info)
       /\ \A k \in DOMAIN captures'.facade_key_to_capture :
              get_facade_key(heap'[captures'.facade_key_to_capture[k]].info) = k
       /\ \A key \in ChipIds :
              (Remove(key) /\ contains(captures, key)) =>
                  LET arc_capture == get(captures, key)
                      facade_key == get_facade_key(heap[arc_capture].info)
                  IN  /\ facade_key \in DOMAIN captures.facade_key_to_capture
                      /\ captures.facade_key_to_capture[facade_key] = arc_capture]_vars

C18_Witness ==
    /\ last.op = "remove"
    /\ last.ref \in DOMAIN heap
    /\ heap[last.ref].info.records > 0
    /\ lock(heap[last.ref]) = "Ok"
    /\ get_facade_key(heap[last.ref].info) \notin DOMAIN captures.facade_key_to_capture

\* C19: remove(key) leaves every other registered chip id d as it was: get(d)
\* and the lookup by the facade key of d's record give the same record
\* after the call as before it, and that record, its file and its counters
\* included, is unchanged.
C19_RemoveKeepsOthers ==
    [][\A key \in ChipIds :
          Remove(key) =>
              \A d \in ChipIds \ {key} :
                  contains(captures, d) =>
                      LET arc_capture == get(captures, d)
                          facade_key == get_facade_key(heap[arc_capture].info)
                      IN  /\ contains(captures', d)
                          /\ get(captures', d) = arc_capture
                          /\ facade_key \in DOMAIN captures.facade_key_to_capture
                          /\ facade_key \in DOMAIN captures'.facade_key_to_capture
                          /\ captures'.facade_key_to_capture[facade_key] =
                                 captures.facade_key_to_capture[facade_key]
                          /\ heap'[arc_capture] = heap[arc_capture]]_vars

C19_Witness ==
    /\ last.op = "remove"
    /\ last.ref # 0
    /\ Len(captures.chip_id_to_capture) = 1
    /\ LET arc_capture == captures.chip_id_to_capture[1][2]
       IN  /\ heap[arc_capture].info.file = SomeFile
           /\ heap[arc_capture].info.records > 0
           /\ captures.facade_key_to_capture[get_facade_key(heap[arc_capture].info)]
                  = arc_capture

\* C20: the size of the snapshot get_capture_proto builds is the record's
\* size counter, whatever value the counter has: `self.size as i32` neither
\* wraps nor changes it.
C20_SnapshotSizeIsSize ==
    \A r \in DOMAIN heap :
        LET proto == get_capture_proto(heap[r].info)
        IN  /\ proto.size >= 0
            /\ usize(proto.size) = heap[r].info.size

====
